---- MODULE Spec2Model ----
(***************************************************************************)
(* Session, navigation and persistence controller of the Legal Lens        *)
(* client (src/src/App.tsx), with the profile view's save handler          *)
(* (src/src/components/profile-page.tsx).                                  *)
(*                                                                         *)
(* Modelling conventions                                                   *)
(*  - A JavaScript string is a sequence of tokens (TLA+ strings); the      *)
(*    token " " is whitespace.  "Test User" is <<"Test", " ", "User">>.    *)
(*  - A JavaScript value is a tagged record: a string, null or undefined.  *)
(*  - "T | null" is a sequence of length at most one: <<>> is null.        *)
(*  - The text stored in localStorage is a JSON text: either an object     *)
(*    text (its members in order) or a text JSON.parse rejects.            *)
(*  - The synchronous part of a handler that follows an await is one       *)
(*    step: React batches the state setters of one continuation into one   *)
(*    render, and no timer or click runs between the microtasks.           *)
(***************************************************************************)
EXTENDS Integers, Sequences, FiniteSets, TLC

VARIABLES
    storage,          \* localStorage.getItem('legal-lens-user'): <<>> or <<text>>
    user,             \* App state `user`: <<>> (null) or <<User>>
    authCurrentUser,  \* mockAuth.currentUser: <<>> (null) or <<User>>
    currentPage,      \* App state `currentPage`
    routeParams,      \* App state `routeParams`: [id |-> JS value]
    isLoading,        \* App state `isLoading`
    mounted,          \* the React tree is mounted (FALSE after an uncaught error)
    pending,          \* the auth calls awaiting their timer, in start order
    lastEvent,        \* history: the handler that ran last and how it settled
    firstView,        \* history: the first view rendered after the placeholder
    bootKind,         \* history: what storage held when the process started
    documents,        \* Dashboard state `documents`
    dashLoading,      \* Dashboard state `isLoading`
    analysis,         \* AnalysisPage state `analysis`: <<>> or <<DocumentAnalysis>>
    analysisLoading,  \* AnalysisPage state `isLoading`
    selectedFiles,    \* UploadPage state `selectedFiles`
    isUploading,      \* UploadPage state `isUploading`
    uploadProgress,   \* UploadPage state `uploadProgress`
    uploadResponse,   \* UploadPage state `uploadResponse`: <<>> or <<UploadResponse>>
    messages,         \* ChatPage state `messages`
    documentInfo,     \* ChatPage state `documentInfo`: <<>> or <<DocumentInfo>>
    chatLoading,      \* ChatPage state `isLoading`
    isSending,        \* ChatPage state `isSending`
    viewOps,          \* the views' mock API calls awaiting their timer, in start order
    now,              \* the last value Date.now() gave to an identifier
    appendCount,      \* history: messages appended since the transcript was seeded
    everSent          \* history: the documents whose transcript received a user message

sessionVars == <<storage, user, authCurrentUser, currentPage, routeParams,
                 isLoading, mounted, pending, lastEvent, firstView, bootKind>>

dashboardVars == <<documents, dashLoading>>
analysisVars == <<analysis, analysisLoading>>
uploadVars == <<selectedFiles, isUploading, uploadProgress, uploadResponse>>
chatVars == <<messages, documentInfo, chatLoading, isSending, appendCount,
              everSent>>
viewVars == <<dashboardVars, analysisVars, uploadVars, chatVars, viewOps, now>>

vars == <<sessionVars, viewVars>>

(***************************************************************************)
(* Bounds of the model                                                     *)
(***************************************************************************)
MaxInFlight == 2

(***************************************************************************)
(* JavaScript values                                                       *)
(***************************************************************************)
JsUndefined == [tag |-> "undefined", val |-> <<>>]
JsNull == [tag |-> "null", val |-> <<>>]
JsStr(s) == [tag |-> "string", val |-> s]

None == <<>>
Some(x) == <<x>>

(***************************************************************************)
(* Program constants                                                       *)
(***************************************************************************)
StorageKey == "legal-lens-user"
TestEmail == <<"test@example.com">>
TestPassword == <<"password">>
TestUserName == <<"Test", " ", "User">>
MockUid == <<"123">>
SignInDelay == 1000
SignUpDelay == 1000
SignOutDelay == 500

Page == {"auth", "dashboard", "upload", "analysis", "chat", "profile"}
\* the Page type of the views that receive `navigate` has no 'auth'
ViewPage == {"dashboard", "upload", "analysis", "chat", "profile"}

(***************************************************************************)
(* Inputs                                                                  *)
(***************************************************************************)
\* the accepted pair, a wrong password, and an email that is not the test account's
Credentials ==
    {<<TestEmail, TestPassword>>, <<TestEmail, <<"wrong">>>>,
     <<<<"new@example.com">>, TestPassword>>}
DocIds == {<<"1">>}
NameInputs == {<<>>, <<" ">>, <<" ", "Ann", " ">>}
NavParams == {None} \cup {Some([id |-> JsStr(d)]) : d \in DocIds}

(***************************************************************************)
(* JSON.stringify and JSON.parse on a User                                 *)
(***************************************************************************)
GarbageText == [kind |-> "garbage", members |-> <<>>]

\* JSON.stringify(user): own properties in order, undefined ones left out
JSONStringify(u) ==
    LET all == << <<"uid", u.uid>>, <<"email", u.email>>,
                  <<"displayName", u.displayName>> >>
        defined(m) == m[2].tag # "undefined"
    IN [kind |-> "object", members |-> SelectSeq(all, defined)]

\* JSON.parse throws a SyntaxError on a text that is not JSON
ParseThrows(text) == text.kind # "object"

Member(text, key) ==
    LET hits == SelectSeq(text.members, LAMBDA m : m[1] = key)
    IN IF hits = <<>> THEN JsUndefined ELSE hits[Len(hits)][2]

\* what the stored value is to the restore effect
StorageKind(st) ==
    IF st = None THEN "absent"
    ELSE IF ParseThrows(st[1]) THEN "malformed" ELSE "session"

\* JSON.parse(text) read as a User: a property the text lacks reads undefined
JSONParse(text) ==
    [uid |-> Member(text, "uid"), email |-> Member(text, "email"),
     displayName |-> Member(text, "displayName")]

\* String.prototype.trim on a token sequence
RECURSIVE TrimStart(_)
TrimStart(s) ==
    IF s # <<>> /\ Head(s) = " " THEN TrimStart(Tail(s)) ELSE s

RECURSIVE TrimEnd(_)
TrimEnd(s) ==
    IF s # <<>> /\ s[Len(s)] = " " THEN TrimEnd(SubSeq(s, 1, Len(s) - 1)) ELSE s

Trim(s) == TrimEnd(TrimStart(s))

(***************************************************************************)
(* mockAuth                                                                *)
(***************************************************************************)
\* variant: the password is not compared
SignInEmailOnly(email, password) ==
    IF email = TestEmail
    THEN [ok |-> TRUE,
          user |-> Some([uid |-> JsStr(MockUid), email |-> JsStr(email),
                         displayName |-> JsStr(TestUserName)])]
    ELSE [ok |-> FALSE, user |-> None]

\* what the promise of signInWithEmailAndPassword settles with
SignInWithEmailAndPassword(email, password) ==
    IF email = TestEmail /\ password = TestPassword
    THEN [ok |-> TRUE,
          user |-> Some([uid |-> JsStr(MockUid), email |-> JsStr(email),
                         displayName |-> JsStr(TestUserName)])]
    ELSE [ok |-> FALSE, user |-> None]

\* variant: an email that already has an account is refused
CreateUserUniqueEmail(email, password) ==
    IF email = TestEmail
    THEN [ok |-> FALSE, user |-> None]
    ELSE [ok |-> TRUE,
          user |-> Some([uid |-> JsStr(MockUid), email |-> JsStr(email),
                         displayName |-> JsNull])]

\* what the promise of createUserWithEmailAndPassword settles with
CreateUserWithEmailAndPassword(email, password) ==
    [ok |-> TRUE,
     user |-> Some([uid |-> JsStr(MockUid), email |-> JsStr(email),
                    displayName |-> JsNull])]

\* mockAuth.currentUser after mockAuth.updateProfile(updates)
AuthUpdateProfile(cur, updates) ==
    IF cur # None
    THEN Some([cur[1] EXCEPT !.displayName = updates.displayName])
    ELSE cur

\* the setTimeout delay each mockAuth call awaits
Delay(call) ==
    CASE call.op = "login" -> SignInDelay
      [] call.op = "signup" -> SignUpDelay
      [] call.op = "logout" -> SignOutDelay

\* Timers fire in deadline order: a call started later settles first only
\* when its delay is shorter.
CanSettle(i) ==
    /\ i \in 1..Len(pending)
    /\ \A j \in 1..(i - 1) : Delay(pending[j]) > Delay(pending[i])

Remove(seq, i) == SubSeq(seq, 1, i - 1) \o SubSeq(seq, i + 1, Len(seq))

(***************************************************************************)
(* What App renders                                                        *)
(***************************************************************************)
\* variant: the `!user && currentPage !== 'auth'` guard is missing
RenderPageNoGate(u, page) ==
    CASE page = "auth" -> (IF u # None THEN "nothing" ELSE "auth")
      [] page = "dashboard" -> "dashboard"
      [] page = "upload" -> "upload"
      [] page = "analysis" -> "analysis"
      [] page = "chat" -> "chat"
      [] page = "profile" -> "profile"
      [] OTHER -> "dashboard"

\* renderPage(): the component mounted in <main>; "nothing" is null
RenderPage(u, page) ==
    IF u = None /\ page # "auth" THEN "auth"
    ELSE CASE page = "auth" -> (IF u # None THEN "nothing" ELSE "auth")
           [] page = "dashboard" -> "dashboard"
           [] page = "upload" -> "upload"
           [] page = "analysis" -> "analysis"
           [] page = "chat" -> "chat"
           [] page = "profile" -> "profile"
           [] OTHER -> "dashboard"

\* the isLoading gate in front of renderPage; an unmounted tree shows nothing
View(m, loading, u, page) ==
    IF ~m THEN "blank"
    ELSE IF loading THEN "loading"
    ELSE RenderPage(u, page)

RenderedView == View(mounted, isLoading, user, currentPage)

\* the documentId prop handed to AnalysisPage / ChatPage
DocumentIdProp == routeParams.id

\* hadSession is written by logout only: whether a session existed before it
Event(op, outcome, email, password) ==
    [op |-> op, outcome |-> outcome, email |-> email, password |-> password,
     hadSession |-> FALSE]

NoEvent == Event("none", "none", <<>>, <<>>)

\* history: remember the first view that replaces the loading placeholder
Observe ==
    firstView' = IF firstView = "none" /\ RenderedView' \notin {"loading", "blank"}
                 THEN RenderedView'
                 ELSE firstView

(***************************************************************************)
(* Initial state: the process starts with whatever storage holds           *)
(***************************************************************************)
\* No view is mounted: every view's state has its useState initial value.
DashboardInit == documents = <<>> /\ dashLoading = TRUE
AnalysisInit == analysis = None /\ analysisLoading = TRUE
UploadInit ==
    /\ selectedFiles = <<>>
    /\ isUploading = FALSE
    /\ uploadProgress = 0
    /\ uploadResponse = None
ChatInit ==
    /\ messages = <<>>
    /\ documentInfo = None
    /\ chatLoading = TRUE
    /\ isSending = FALSE
    /\ appendCount = 0
    /\ everSent = {}

ViewsInit ==
    /\ DashboardInit
    /\ AnalysisInit
    /\ UploadInit
    /\ ChatInit
    /\ viewOps = <<>>
    /\ now = 0

BootTexts ==
    {JSONStringify(SignInWithEmailAndPassword(TestEmail, TestPassword).user[1]),
     GarbageText}

Init ==
    /\ storage \in {None} \cup {Some(t) : t \in BootTexts}
    /\ bootKind = StorageKind(storage)
    /\ user = None
    /\ authCurrentUser = None
    /\ currentPage = "auth"
    /\ routeParams = [id |-> JsUndefined]
    /\ isLoading = TRUE
    /\ mounted = TRUE
    /\ pending = <<>>
    /\ lastEvent = NoEvent
    /\ firstView = "none"
    /\ ViewsInit

(***************************************************************************)
(* The restore effect (runs once, after the first render)                  *)
(***************************************************************************)
\* variant: the restored session does not select the dashboard
RestoreEffectKeepPage(savedUser) ==
    IF savedUser # None
    THEN IF ParseThrows(savedUser[1])
         THEN [threw |-> TRUE, user |-> user, auth |-> authCurrentUser,
               page |-> currentPage, loading |-> isLoading]
         ELSE [threw |-> FALSE, user |-> Some(JSONParse(savedUser[1])),
               auth |-> Some(JSONParse(savedUser[1])),
               page |-> currentPage, loading |-> FALSE]
    ELSE [threw |-> FALSE, user |-> user, auth |-> authCurrentUser,
          page |-> currentPage, loading |-> FALSE]

\* the state the effect leaves, given what getItem returned
RestoreEffect(savedUser) ==
    IF savedUser # None
    THEN IF ParseThrows(savedUser[1])
         THEN [threw |-> TRUE, user |-> user, auth |-> authCurrentUser,
               page |-> currentPage, loading |-> isLoading]
         ELSE [threw |-> FALSE, user |-> Some(JSONParse(savedUser[1])),
               auth |-> Some(JSONParse(savedUser[1])),
               page |-> "dashboard", loading |-> FALSE]
    ELSE [threw |-> FALSE, user |-> user, auth |-> authCurrentUser,
          page |-> currentPage, loading |-> FALSE]

\* An error thrown by an effect with no error boundary unmounts the tree.
Restore ==
    /\ mounted /\ isLoading
    /\ LET r == RestoreEffect(storage)
       IN /\ user' = r.user
          /\ authCurrentUser' = r.auth
          /\ currentPage' = r.page
          /\ isLoading' = r.loading
          /\ mounted' = ~r.threw
          /\ lastEvent' = Event("restore", IF r.threw THEN "threw" ELSE "done",
                                <<>>, <<>>)
    /\ UNCHANGED <<storage, routeParams, pending, bootKind>>
    /\ Observe

\* The page is loaded again: memory is lost, storage is kept.
Reload ==
    /\ user' = None
    /\ authCurrentUser' = None
    /\ currentPage' = "auth"
    /\ routeParams' = [id |-> JsUndefined]
    /\ isLoading' = TRUE
    /\ mounted' = TRUE
    /\ pending' = <<>>
    /\ bootKind' = StorageKind(storage)
    /\ firstView' = "none"
    /\ lastEvent' = Event("reload", "done", <<>>, <<>>)
    /\ UNCHANGED storage

(***************************************************************************)
(* navigate                                                                *)
(***************************************************************************)
\* setRouteParams(params || {})
\* variant: a call without params leaves the stored params as they are
ParamsOrKeep(params) ==
    IF params # None THEN params[1] ELSE routeParams

ParamsOrEmpty(params) ==
    IF params # None THEN params[1] ELSE [id |-> JsUndefined]

Navigate(page, params) ==
    /\ mounted /\ ~isLoading
    /\ currentPage' = page
    /\ routeParams' = ParamsOrEmpty(params)
    /\ lastEvent' = Event("navigate", "done", <<>>, <<>>)
    /\ UNCHANGED <<storage, user, authCurrentUser, isLoading, mounted, pending,
                   bootKind>>
    /\ Observe

(***************************************************************************)
(* handleLogin, handleSignup, handleLogout                                 *)
(* Each starts a mockAuth call that awaits a timer (Start...), and runs     *)
(* the rest of the handler when the timer has fired (Settle...).           *)
(***************************************************************************)
Call(op, email, password) == [op |-> op, email |-> email, password |-> password]

\* The handlers are closures a holder can call in any state once App has
\* rendered them (after startup), whichever view is on screen at the time.

CanStart == mounted /\ ~isLoading /\ Len(pending) < MaxInFlight

StartLogin(email, password) ==
    /\ CanStart
    /\ pending' = Append(pending, Call("login", email, password))
    /\ lastEvent' = Event("start", "login", <<>>, <<>>)
    /\ UNCHANGED <<storage, user, authCurrentUser, currentPage, routeParams,
                   isLoading, mounted, firstView, bootKind>>

StartSignup(email, password) ==
    /\ CanStart
    /\ pending' = Append(pending, Call("signup", email, password))
    /\ lastEvent' = Event("start", "signup", <<>>, <<>>)
    /\ UNCHANGED <<storage, user, authCurrentUser, currentPage, routeParams,
                   isLoading, mounted, firstView, bootKind>>

StartLogout ==
    /\ CanStart
    /\ pending' = Append(pending, Call("logout", <<>>, <<>>))
    /\ lastEvent' = Event("start", "logout", <<>>, <<>>)
    /\ UNCHANGED <<storage, user, authCurrentUser, currentPage, routeParams,
                   isLoading, mounted, firstView, bootKind>>

\* variant: setCurrentPage('dashboard') is missing
AfterAuthKeepPage(result) ==
    IF result.ok
    THEN [user |-> result.user, auth |-> result.user,
          storage |-> Some(JSONStringify(result.user[1])),
          page |-> currentPage, outcome |-> "resolved"]
    ELSE [user |-> user, auth |-> authCurrentUser, storage |-> storage,
          page |-> currentPage, outcome |-> "rejected"]

\* handleLogin / handleSignup after the await, given the settled result:
\* setUser, localStorage.setItem, setCurrentPage('dashboard') on success;
\* the rejection is rethrown to the caller and nothing is written.
AfterAuth(result) ==
    IF result.ok
    THEN [user |-> result.user, auth |-> result.user,
          storage |-> Some(JSONStringify(result.user[1])),
          page |-> "dashboard", outcome |-> "resolved"]
    ELSE [user |-> user, auth |-> authCurrentUser, storage |-> storage,
          page |-> currentPage, outcome |-> "rejected"]

SettleLogin(i) ==
    /\ mounted /\ CanSettle(i) /\ pending[i].op = "login"
    /\ LET c == pending[i]
           r == AfterAuth(SignInWithEmailAndPassword(c.email, c.password))
       IN /\ user' = r.user
          /\ authCurrentUser' = r.auth
          /\ storage' = r.storage
          /\ currentPage' = r.page
          /\ lastEvent' = Event("login", r.outcome, c.email, c.password)
    /\ pending' = Remove(pending, i)
    /\ UNCHANGED <<routeParams, isLoading, mounted, bootKind>>
    /\ Observe

SettleSignup(i) ==
    /\ mounted /\ CanSettle(i) /\ pending[i].op = "signup"
    /\ LET c == pending[i]
           r == AfterAuth(CreateUserWithEmailAndPassword(c.email, c.password))
       IN /\ user' = r.user
          /\ authCurrentUser' = r.auth
          /\ storage' = r.storage
          /\ currentPage' = r.page
          /\ lastEvent' = Event("signup", r.outcome, c.email, c.password)
    /\ pending' = Remove(pending, i)
    /\ UNCHANGED <<routeParams, isLoading, mounted, bootKind>>
    /\ Observe

\* variant: localStorage.removeItem is missing
AfterSignOutKeepBlob ==
    [user |-> None, auth |-> None, storage |-> storage, page |-> "auth",
     params |-> routeParams, outcome |-> "resolved"]

\* handleLogout after `await mockAuth.signOut()`: setUser(null),
\* localStorage.removeItem, setCurrentPage('auth'); routeParams is not written
AfterSignOut ==
    [user |-> None, auth |-> None, storage |-> None, page |-> "auth",
     params |-> routeParams, outcome |-> "resolved"]

\* variant: signOut rejects when nobody is signed in, and handleLogout stops
SignOutNeedsSession(cur) ==
    IF cur = None THEN "rejected" ELSE "resolved"

\* mockAuth.signOut(): the promise resolves whoever is signed in
SignOut(cur) == "resolved"

SettleLogout(i) ==
    /\ mounted /\ CanSettle(i) /\ pending[i].op = "logout"
    /\ LET signedOut == SignOut(authCurrentUser) = "resolved"
           r == AfterSignOut
       IN /\ user' = IF signedOut THEN r.user ELSE user
          /\ authCurrentUser' = IF signedOut THEN r.auth ELSE authCurrentUser
          /\ storage' = IF signedOut THEN r.storage ELSE storage
          /\ currentPage' = IF signedOut THEN r.page ELSE currentPage
          /\ routeParams' = r.params
          /\ lastEvent' = [Event("logout", SignOut(authCurrentUser), <<>>, <<>>)
                              EXCEPT !.hadSession = (user # None)]
    /\ pending' = Remove(pending, i)
    /\ UNCHANGED <<isLoading, mounted, bootKind>>
    /\ Observe

(***************************************************************************)
(* updateUser, called by the profile view's handleSaveProfile              *)
(***************************************************************************)
\* { ...user, ...updates }
Merge(u, updates) == [u EXCEPT !.displayName = updates.displayName]

\* variant: the merged user is not written back to localStorage
UpdateUserNoPersist(updates) ==
    IF user # None
    THEN [user |-> Some(Merge(user[1], updates)),
          auth |-> AuthUpdateProfile(authCurrentUser, updates),
          storage |-> storage,
          outcome |-> "resolved"]
    ELSE [user |-> user, auth |-> authCurrentUser, storage |-> storage,
          outcome |-> "resolved"]

\* updateUser(updates): the state it leaves and how its promise settles.
\* With no user the body is skipped and the promise still resolves.
UpdateUser(updates) ==
    IF user # None
    THEN [user |-> Some(Merge(user[1], updates)),
          auth |-> AuthUpdateProfile(authCurrentUser, updates),
          storage |-> Some(JSONStringify(Merge(user[1], updates))),
          outcome |-> "resolved"]
    ELSE [user |-> user, auth |-> authCurrentUser, storage |-> storage,
          outcome |-> "resolved"]

\* handleSaveProfile with `input` typed in the display-name field: an empty
\* trimmed name is refused before updateUser is called; a resolved promise
\* shows the success toast, a rejected one the failure toast.
HandleSaveProfile(input) ==
    /\ mounted /\ ~isLoading
    /\ IF Trim(input) = <<>>
       THEN /\ lastEvent' = Event("saveProfile", "refused", <<>>, <<>>)
            /\ UNCHANGED <<user, authCurrentUser, storage>>
       ELSE LET r == UpdateUser([displayName |-> JsStr(Trim(input))])
            IN /\ user' = r.user
               /\ authCurrentUser' = r.auth
               /\ storage' = r.storage
               /\ lastEvent' = Event("updateProfile", r.outcome, <<>>, <<>>)
    /\ UNCHANGED <<currentPage, routeParams, isLoading, mounted, pending, bootKind>>
    /\ Observe

(***************************************************************************)
(* Specification                                                           *)
(***************************************************************************)
\* The session controller on its own: the views' state is left as it is.
Next ==
    \/ Restore /\ UNCHANGED viewVars
    \/ Reload /\ UNCHANGED viewVars
    \/ \E page \in ViewPage, params \in NavParams :
          Navigate(page, params) /\ UNCHANGED viewVars
    \/ \E c \in Credentials : StartLogin(c[1], c[2]) /\ UNCHANGED viewVars
    \/ \E c \in Credentials : StartSignup(c[1], c[2]) /\ UNCHANGED viewVars
    \/ StartLogout /\ UNCHANGED viewVars
    \/ \E i \in 1..MaxInFlight + 1 : SettleLogin(i) /\ UNCHANGED viewVars
    \/ \E i \in 1..MaxInFlight + 1 : SettleSignup(i) /\ UNCHANGED viewVars
    \/ \E i \in 1..MaxInFlight + 1 : SettleLogout(i) /\ UNCHANGED viewVars
    \/ \E input \in NameInputs : HandleSaveProfile(input) /\ UNCHANGED viewVars

Spec == Init /\ [][Next]_vars

(***************************************************************************)
(* The views App mounts in <main>: Dashboard, UploadPage, AnalysisPage and  *)
(* ChatPage.  A view's state lives in the mounted component: it starts at   *)
(* the useState initial values when the view is mounted and is discarded    *)
(* when another view replaces it.  A mock call started by a view that has   *)
(* since been unmounted still settles; its state setters then do nothing.   *)
(* Date.now() gives every identifier a value later than the previous one.   *)
(***************************************************************************)
MaxViewOps == 2
MaxNow == 3

GetDocumentInfoDelay == 500
SendMessageDelay == 1500
AnalysisDelay == 1000
HistoryDelay == 1000
UploadDelay == 3000

\* an id no row offers: document 3 is still processing
ViewDocIds == {<<"3">>}
ViewNavParams == {None} \cup {Some([id |-> JsStr(d)]) : d \in ViewDocIds}
ChatInputs == {<<" ">>, <<"risks">>}

\* `if (documentId)`: a non-empty string
Truthy(v) == v.tag = "string" /\ v.val # <<>>

appVars == <<storage, user, authCurrentUser, currentPage, routeParams,
             isLoading, mounted, pending, firstView, bootKind>>

\* a mock API call whose timer is running; live: its view is still mounted
\* timer: the progress interval started with the call is still set
ViewOp(op, doc, at, text) ==
    [op |-> op, doc |-> doc, at |-> at, text |-> text, live |-> TRUE,
     timer |-> (op = "upload")]

Owner(op) ==
    CASE op = "history" -> "dashboard"
      [] op = "analysis" -> "analysis"
      [] op = "upload" -> "upload"
      [] op = "interval" -> "upload"
      [] OTHER -> "chat"

ViewDelay(call) ==
    CASE call.op = "history" -> HistoryDelay
      [] call.op = "analysis" -> AnalysisDelay
      [] call.op = "upload" -> UploadDelay
      [] call.op = "docinfo" -> GetDocumentInfoDelay
      [] OTHER -> SendMessageDelay

\* as CanSettle, for the views' timers
CanSettleView(i) ==
    /\ i \in 1..Len(viewOps)
    /\ \A j \in 1..(i - 1) :
          \/ viewOps[j].op = "interval"
          \/ ViewDelay(viewOps[j]) > ViewDelay(viewOps[i])

\* Every upload of a mounted view will read Date.now() when it resolves.
LiveUploads ==
    Cardinality({i \in 1..Len(viewOps) :
                    viewOps[i].op = "upload" /\ viewOps[i].live})

\* bound: a timestamp is left for the event and for every such upload
StampFree == now + LiveUploads < MaxNow

(***************************************************************************)
(* Mounting and unmounting, as a consequence of what App renders           *)
(***************************************************************************)
\* variant: the effect has no dependency list and runs after every render
EffectRunsEveryRender(wasMounted, prevId, nextId) == TRUE

\* useEffect(..., [documentId]): after the mount, and when the prop changes
EffectRuns(wasMounted, prevId, nextId) == ~wasMounted \/ prevId # nextId

Stays(view) == RenderedView = view /\ RenderedView' = view

\* A fetch whose view is gone only sets the state of an unmounted component
\* when it resolves, which does nothing: it is not followed any further.
\* Nor is a progress interval that outlived a rejected upload and its view.
\* An upload or a send whose view is gone is kept until it resolves.
Forgotten(call) ==
    /\ RenderedView' # RenderedView
    /\ Owner(call.op) = RenderedView
    /\ call.op \in {"history", "analysis", "docinfo", "interval"}

RECURSIVE KilledOps(_)
KilledOps(calls) ==
    IF calls = <<>> THEN <<>>
    ELSE IF Forgotten(Head(calls)) THEN KilledOps(Tail(calls))
    ELSE IF RenderedView' # RenderedView /\ Owner(Head(calls).op) = RenderedView
         THEN <<[Head(calls) EXCEPT !.live = FALSE]>> \o KilledOps(Tail(calls))
         ELSE <<Head(calls)>> \o KilledOps(Tail(calls))

\* the calls started by the effects of the view that is rendered next
StartedOps ==
    IF RenderedView' = "dashboard"
    THEN IF RenderedView # "dashboard"
         THEN <<ViewOp("history", <<>>, 0, <<>>)>>
         ELSE <<>>
    ELSE IF /\ RenderedView' \in {"analysis", "chat"}
            /\ EffectRuns(RenderedView = RenderedView', DocumentIdProp,
                          routeParams'.id)
            /\ Truthy(routeParams'.id)
         THEN <<ViewOp(IF RenderedView' = "analysis" THEN "analysis"
                       ELSE "docinfo", routeParams'.id.val, 0, <<>>)>>
         ELSE <<>>

DashboardReact ==
    IF Stays("dashboard")
    THEN UNCHANGED dashboardVars
    ELSE documents' = <<>> /\ dashLoading' = TRUE

\* AnalysisPage effect: fetchAnalysis(documentId), or setIsLoading(false)
AnalysisReact ==
    IF RenderedView' = "analysis"
    THEN /\ analysis' = IF Stays("analysis") THEN analysis ELSE None
         /\ analysisLoading' =
              IF EffectRuns(RenderedView = "analysis", DocumentIdProp,
                            routeParams'.id)
              THEN Truthy(routeParams'.id)
              ELSE analysisLoading
    ELSE analysis' = None /\ analysisLoading' = TRUE

UploadReact ==
    IF Stays("upload")
    THEN UNCHANGED uploadVars
    ELSE /\ selectedFiles' = <<>>
         /\ isUploading' = FALSE
         /\ uploadProgress' = 0
         /\ uploadResponse' = None

\* ChatPage effect: initializeChat(documentId), or setIsLoading(false)
ChatReact ==
    /\ IF RenderedView' = "chat"
       THEN /\ messages' = IF Stays("chat") THEN messages ELSE <<>>
            /\ documentInfo' = IF Stays("chat") THEN documentInfo ELSE None
            /\ isSending' = IF Stays("chat") THEN isSending ELSE FALSE
            /\ appendCount' = IF Stays("chat") THEN appendCount ELSE 0
            /\ chatLoading' =
                 IF EffectRuns(RenderedView = "chat", DocumentIdProp,
                               routeParams'.id)
                 THEN Truthy(routeParams'.id)
                 ELSE chatLoading
       ELSE /\ messages' = <<>>
            /\ documentInfo' = None
            /\ isSending' = FALSE
            /\ appendCount' = 0
            /\ chatLoading' = TRUE
    /\ UNCHANGED everSent

\* what a step of App does to the views
ViewsReact ==
    /\ DashboardReact
    /\ AnalysisReact
    /\ UploadReact
    /\ ChatReact
    /\ viewOps' = KilledOps(viewOps) \o StartedOps
    /\ Len(viewOps') <= MaxViewOps
    /\ UNCHANGED now

(***************************************************************************)
(* Dashboard                                                               *)
(***************************************************************************)
Document(id, name, type, uploadDate, status, summary, riskLevel) ==
    [id |-> id, name |-> name, type |-> type, uploadDate |-> uploadDate,
     status |-> status, summary |-> summary, riskLevel |-> riskLevel]

\* mockAPI.getDocumentHistory: the same three documents on every call
DocumentHistory ==
    <<Document(<<"1">>, <<"Employment_Agreement_2024.pdf">>, "employment",
               "2024-01-15", "completed",
               JsStr(<<"Standard employment agreement">>), "low"),
      Document(<<"2">>, <<"Vendor_Contract_ABC_Corp.pdf">>, "contract",
               "2024-01-14", "completed",
               JsStr(<<"Service agreement with payment terms">>), "medium"),
      Document(<<"3">>, <<"Partnership_Agreement_Draft.pdf">>, "partnership",
               "2024-01-13", "processing",
               JsStr(<<"Complex partnership structure">>), "high")>>

\* fetchDocumentHistory after `await mockAPI.getDocumentHistory()`
SettleHistory(i) ==
    /\ CanSettleView(i) /\ viewOps[i].op = "history"
    /\ IF viewOps[i].live
       THEN documents' = DocumentHistory /\ dashLoading' = FALSE
       ELSE UNCHANGED dashboardVars
    /\ viewOps' = Remove(viewOps, i)
    /\ lastEvent' = Event("fetchDocumentHistory",
                          IF viewOps[i].live THEN "done" ELSE "dropped",
                          <<>>, <<>>)
    /\ UNCHANGED <<appVars, analysisVars, uploadVars, chatVars, now>>

\* the Refresh button (disabled while loading): fetchDocumentHistory again
RefreshHistory ==
    /\ RenderedView = "dashboard" /\ ~dashLoading
    /\ Len(viewOps) < MaxViewOps
    /\ dashLoading' = TRUE
    /\ viewOps' = Append(viewOps, ViewOp("history", <<>>, 0, <<>>))
    /\ lastEvent' = Event("fetchDocumentHistory", "started", <<>>, <<>>)
    /\ UNCHANGED <<appVars, documents, analysisVars, uploadVars, chatVars, now>>

(***************************************************************************)
(* AnalysisPage                                                            *)
(***************************************************************************)
EmploymentSummary == <<"This employment agreement establishes the terms">>

\* mockAnalysisAPI: the same analysis, under the id it was asked for
MockAnalysisAPI(documentId) ==
    [id |-> documentId, name |-> <<"Employment_Agreement_2024.pdf">>,
     type |-> "employment", uploadDate |-> "2024-01-15",
     summary |-> EmploymentSummary, riskLevel |-> "medium"]

\* fetchAnalysis after `await mockAnalysisAPI(id)`
SettleAnalysis(i) ==
    /\ CanSettleView(i) /\ viewOps[i].op = "analysis"
    /\ IF viewOps[i].live
       THEN /\ analysis' = Some(MockAnalysisAPI(viewOps[i].doc))
            /\ analysisLoading' = FALSE
       ELSE UNCHANGED analysisVars
    /\ viewOps' = Remove(viewOps, i)
    /\ lastEvent' = Event("fetchAnalysis",
                          IF viewOps[i].live THEN "done" ELSE "dropped",
                          <<>>, <<>>)
    /\ UNCHANGED <<appVars, dashboardVars, uploadVars, chatVars, now>>

(***************************************************************************)
(* UploadPage                                                              *)
(***************************************************************************)
MaxFiles == 2
\* 10 * 1024 * 1024 bytes, in megabytes
MaxFileSize == 10
ProgressStep == 10
ProgressCap == 90
ProgressDone == 100

File(name, type, size) == [name |-> name, type |-> type, size |-> size]
ContractPdf == File(<<"contract.pdf">>, "application/pdf", 1)
NotesTxt == File(<<"notes.txt">>, "text/plain", 1)
ScanPng == File(<<"scan.png">>, "image/png", 11)
SignedJpg == File(<<"signed.jpg">>, "image/jpeg", 1)
\* what the file input hands to handleFileSelect
FileSelections ==
    {<<NotesTxt, ScanPng, ContractPdf, SignedJpg>>, <<ContractPdf, ContractPdf>>}

ValidTypes == {"application/pdf", "image/jpeg", "image/png", "image/jpg"}

RECURSIVE ValidFiles(_)
ValidFiles(files) ==
    IF files = <<>> THEN <<>>
    ELSE IF Head(files).type \in ValidTypes /\ Head(files).size <= MaxFileSize
         THEN <<Head(files)>> \o ValidFiles(Tail(files))
         ELSE ValidFiles(Tail(files))

\* `${file.name}_${Date.now()}`
UploadedFile(file, at) ==
    [file |-> file, id |-> file.name \o <<"_", ToString(at)>>]

\* the form is rendered while there is no upload response
FormShown == RenderedView = "upload" /\ uploadResponse = None

handleFileSelect(files) ==
    /\ FormShown
    /\ LET valid == ValidFiles(files)
       IN IF valid = <<>>
          THEN UNCHANGED <<selectedFiles, now>>
          ELSE /\ StampFree
               /\ Len(selectedFiles) + Len(valid) <= MaxFiles
               /\ now' = now + 1
               /\ selectedFiles' = selectedFiles \o
                    [k \in 1..Len(valid) |-> UploadedFile(valid[k], now')]
    /\ lastEvent' = Event("handleFileSelect", "done", <<>>, <<>>)
    /\ UNCHANGED <<appVars, dashboardVars, analysisVars, chatVars, viewOps,
                   isUploading, uploadProgress, uploadResponse>>

RECURSIVE WithoutId(_, _)
WithoutId(files, id) ==
    IF files = <<>> THEN <<>>
    ELSE IF Head(files).id # id
         THEN <<Head(files)>> \o WithoutId(Tail(files), id)
         ELSE WithoutId(Tail(files), id)

\* the X button of a selected file (hidden while uploading)
removeFile(k) ==
    /\ FormShown /\ ~isUploading
    /\ k \in 1..Len(selectedFiles)
    /\ selectedFiles' = WithoutId(selectedFiles, selectedFiles[k].id)
    /\ lastEvent' = Event("removeFile", "done", <<>>, <<>>)
    /\ UNCHANGED <<appVars, dashboardVars, analysisVars, chatVars, viewOps, now,
                   isUploading, uploadProgress, uploadResponse>>

\* variant: the file selected last is the one submitted
SubmittedFileLast(files) == files[Len(files)].file

\* `selectedFiles[0].file`, the argument of the only mockUploadAPI call
SubmittedFile(files) == files[1].file

\* handleUpload up to `await mockUploadAPI(selectedFiles[0].file)`; the
\* button is disabled without files and while uploading
handleUpload ==
    /\ FormShown /\ ~isUploading
    /\ selectedFiles # <<>>
    /\ Len(viewOps) < MaxViewOps
    /\ StampFree
    /\ isUploading' = TRUE
    /\ uploadProgress' = 0
    /\ viewOps' = Append(viewOps,
                         ViewOp("upload", SubmittedFile(selectedFiles).name, 0,
                                <<>>))
    /\ lastEvent' = Event("handleUpload", "started", <<>>, <<>>)
    /\ UNCHANGED <<appVars, dashboardVars, analysisVars, chatVars, now,
                   selectedFiles, uploadResponse>>

\* variant: the updater adds a step whatever the previous value is
NextProgressUncapped(prev) == prev + ProgressStep

\* the updater given to setUploadProgress by the interval callback
NextProgress(prev) ==
    IF prev >= ProgressCap THEN ProgressCap ELSE prev + ProgressStep

\* one firing of the progress interval of a mounted UploadPage; at the cap
\* the callback clears the interval
ProgressTick(i) ==
    /\ i \in 1..Len(viewOps)
    /\ viewOps[i].op \in {"upload", "interval"}
    /\ viewOps[i].timer /\ viewOps[i].live
    /\ uploadProgress' = NextProgress(uploadProgress)
    /\ IF uploadProgress >= ProgressCap
       THEN viewOps' = IF viewOps[i].op = "interval"
                       THEN Remove(viewOps, i)
                       ELSE [viewOps EXCEPT ![i].timer = FALSE]
       ELSE UNCHANGED viewOps
    /\ lastEvent' = Event("progress", "tick", <<>>, <<>>)
    /\ UNCHANGED <<appVars, dashboardVars, analysisVars, chatVars, now,
                   selectedFiles, isUploading, uploadResponse>>

\* variant: there is no finally block
UploadingFinallyMissing == isUploading

\* handleUpload, finally: setIsUploading(false)
UploadingFinally == FALSE

UploadSummary == <<"This appears to be a standard legal contract">>

\* mockUploadAPI: `doc_${Date.now()}` and the same analysis for every file
MockUploadAPI(file, at) ==
    [success |-> TRUE, documentId |-> <<"doc_", ToString(at)>>,
     message |-> "Document uploaded and analyzed successfully",
     analysis |-> [summary |-> UploadSummary, riskLevel |-> "medium",
                   documentType |-> "contract"]]

\* handleUpload after the await: clearInterval, progress 100, the response
SettleUpload(i) ==
    /\ CanSettleView(i) /\ viewOps[i].op = "upload"
    /\ IF viewOps[i].live
       THEN /\ now < MaxNow
            /\ now' = now + 1
            /\ uploadProgress' = ProgressDone
            /\ uploadResponse' = Some(MockUploadAPI(viewOps[i].doc, now'))
            /\ isUploading' = UploadingFinally
            /\ UNCHANGED selectedFiles
       ELSE UNCHANGED <<uploadVars, now>>
    /\ viewOps' = Remove(viewOps, i)
    /\ lastEvent' = Event("handleUpload",
                          IF viewOps[i].live THEN "done" ELSE "dropped",
                          <<>>, <<>>)
    /\ UNCHANGED <<appVars, dashboardVars, analysisVars, chatVars>>

\* the "Upload Another Document" button of the result
resetUpload ==
    /\ RenderedView = "upload" /\ uploadResponse # None
    /\ selectedFiles' = <<>>
    /\ uploadResponse' = None
    /\ uploadProgress' = 0
    /\ lastEvent' = Event("resetUpload", "done", <<>>, <<>>)
    /\ UNCHANGED <<appVars, dashboardVars, analysisVars, chatVars, viewOps, now,
                   isUploading>>

\* the result's "View Full Analysis" and "Chat with AI" buttons
OpenUploaded(page) ==
    /\ RenderedView = "upload" /\ uploadResponse # None
    /\ Navigate(page, Some([id |-> JsStr(uploadResponse[1].documentId)]))
    /\ ViewsReact

(***************************************************************************)
(* ChatPage                                                                *)
(***************************************************************************)
\* mockChatAPI.getDocumentInfo: the same document for every id
GetDocumentInfo(documentId) ==
    [id |-> documentId, name |-> <<"Employment_Agreement_2024.pdf">>,
     type |-> "employment", riskLevel |-> "medium"]

MessageId(kind, at) == [kind |-> kind, at |-> at]

WelcomeMessage(docInfo) ==
    [id |-> MessageId("welcome", 0), role |-> "assistant",
     content |-> <<"Hello!">> \o docInfo.name, status |-> "none"]

\* `user-${Date.now()}`
UserMessage(text, at) ==
    [id |-> MessageId("user", at), role |-> "user", content |-> Trim(text),
     status |-> "sent"]

\* mockChatAPI.sendMessage: the canned answer chosen by keyword
SendMessageReply(message) ==
    LET Includes(w) == \E k \in 1..Len(message) : message[k] = w
    IN CASE Includes("risk") \/ Includes("risks") -> <<"risks-answer">>
         [] Includes("salary") \/ Includes("compensation") \/ Includes("pay")
              -> <<"compensation-answer">>
         [] Includes("termination") \/ Includes("quit") \/ Includes("fire")
              -> <<"termination-answer">>
         [] Includes("negotiate") \/ Includes("negotiation")
              -> <<"negotiation-answer">>
         [] Includes("benefits") \/ Includes("insurance")
              \/ Includes("vacation") -> <<"benefits-answer">>
         [] OTHER -> <<"default-answer">>

\* `assistant-${Date.now()}`; the replies of one view resolve one at a
\* time, so the time of the request it answers identifies a reply as well
AssistantMessage(text, at) ==
    [id |-> MessageId("assistant", at), role |-> "assistant",
     content |-> SendMessageReply(text), status |-> "none"]

\* variant: the user message replaces the transcript instead of extending it
AddUserMessageStale(prev, m) == <<m>>

\* setMessages(prev => [...prev, userMessage])
AddUserMessage(prev, m) == Append(prev, m)

\* variant: the reply is put in front of the transcript
AddAssistantMessageFirst(prev, m) == <<m>> \o prev

\* setMessages(prev => [...prev, assistantMessage])
AddAssistantMessage(prev, m) == Append(prev, m)

\* initializeChat after `await getDocumentInfo(id)`
SettleDocInfo(i) ==
    /\ CanSettleView(i) /\ viewOps[i].op = "docinfo"
    /\ IF viewOps[i].live
       THEN /\ documentInfo' = Some(GetDocumentInfo(viewOps[i].doc))
            /\ messages' = <<WelcomeMessage(GetDocumentInfo(viewOps[i].doc))>>
            /\ chatLoading' = FALSE
            /\ appendCount' = 0
            /\ UNCHANGED <<isSending, everSent>>
       ELSE UNCHANGED chatVars
    /\ viewOps' = Remove(viewOps, i)
    /\ lastEvent' = Event("initializeChat",
                          IF viewOps[i].live THEN "done" ELSE "dropped",
                          <<>>, <<>>)
    /\ UNCHANGED <<appVars, dashboardVars, analysisVars, uploadVars, now>>

\* the input and the send button are rendered for a document once it has
\* loaded, and are disabled while isSending
SendEnabled ==
    /\ RenderedView = "chat"
    /\ Truthy(DocumentIdProp)
    /\ ~chatLoading
    /\ ~isSending

\* variant: the input is tested without being trimmed
SendIgnoredUntrimmed(text, documentId) == text = <<>> \/ ~Truthy(documentId)

\* `if (!inputMessage.trim() || !documentId) return;`
SendIgnored(text, documentId) == Trim(text) = <<>> \/ ~Truthy(documentId)

\* handleSendMessage up to `await mockChatAPI.sendMessage(...)`: called by
\* the input and the button, or on a ChatPage that was given no document
handleSendMessage(text) ==
    /\ SendEnabled \/ (RenderedView = "chat" /\ ~Truthy(DocumentIdProp))
    /\ IF SendIgnored(text, DocumentIdProp)
       THEN /\ lastEvent' = Event("sendMessage", "ignored", <<>>, <<>>)
            /\ UNCHANGED <<chatVars, viewOps, now>>
       ELSE /\ StampFree
            /\ Len(viewOps) < MaxViewOps
            /\ now' = now + 1
            /\ messages' = AddUserMessage(messages, UserMessage(text, now'))
            /\ isSending' = TRUE
            /\ appendCount' = appendCount + 1
            /\ everSent' = everSent \cup {DocumentIdProp.val}
            /\ viewOps' = Append(viewOps, ViewOp("send", DocumentIdProp.val, now',
                                             Trim(text)))
            /\ lastEvent' = Event("sendMessage", "sent", <<>>, <<>>)
            /\ UNCHANGED <<documentInfo, chatLoading>>
    /\ UNCHANGED <<appVars, dashboardVars, analysisVars, uploadVars>>

\* handleSendMessage after the await: the reply is appended
SettleSend(i) ==
    /\ CanSettleView(i) /\ viewOps[i].op = "send"
    /\ IF viewOps[i].live
       THEN /\ messages' = AddAssistantMessage(messages,
                              AssistantMessage(viewOps[i].text,
                                               viewOps[i].at))
            /\ isSending' = FALSE
            /\ appendCount' = appendCount + 1
            /\ UNCHANGED <<documentInfo, chatLoading, everSent>>
       ELSE UNCHANGED chatVars
    /\ viewOps' = Remove(viewOps, i)
    /\ lastEvent' = Event("sendMessage",
                          IF viewOps[i].live THEN "replied" ELSE "dropped",
                          <<>>, <<>>)
    /\ UNCHANGED <<appVars, dashboardVars, analysisVars, uploadVars, now>>

(***************************************************************************)
(* The same handlers when the transport rejects.  The mock APIs of the     *)
(* repository always resolve; the catch and finally blocks are what the    *)
(* handlers do once the awaited call is one that can fail.                 *)
(***************************************************************************)
RECURSIVE MarkError(_, _)
\* prev.map(msg => msg.id === userMessage.id ? {...msg, status: 'error'} : msg)
MarkError(prev, id) ==
    IF prev = <<>> THEN <<>>
    ELSE <<IF Head(prev).id = id THEN [Head(prev) EXCEPT !.status = "error"]
           ELSE Head(prev)>> \o MarkError(Tail(prev), id)

\* variant: the catch block removes the message that could not be sent
AfterSendFailureDrops(prev, id) ==
    SelectSeq(prev, LAMBDA msg : msg.id # id)

\* handleSendMessage, catch block
AfterSendFailure(prev, id) == MarkError(prev, id)

\* handleSendMessage when the awaited sendMessage rejects: catch, finally
RejectSend(i) ==
    /\ CanSettleView(i) /\ viewOps[i].op = "send"
    /\ IF viewOps[i].live
       THEN /\ messages' = AfterSendFailure(messages,
                                            MessageId("user", viewOps[i].at))
            /\ isSending' = FALSE
            /\ UNCHANGED <<documentInfo, chatLoading, appendCount, everSent>>
       ELSE UNCHANGED chatVars
    /\ viewOps' = Remove(viewOps, i)
    /\ lastEvent' = Event("sendMessage",
                          IF viewOps[i].live THEN "failed" ELSE "failed-unmounted",
                          <<>>, <<>>)
    /\ UNCHANGED <<appVars, dashboardVars, analysisVars, uploadVars, now>>

\* variant: the catch block also empties the selection
AfterUploadFailureClears ==
    [files |-> <<>>, response |-> uploadResponse,
     uploading |-> UploadingFinally]

\* handleUpload, catch and finally: only isUploading is written
AfterUploadFailure ==
    [files |-> selectedFiles, response |-> uploadResponse,
     uploading |-> UploadingFinally]

\* handleUpload when the awaited upload rejects: clearInterval, which stands
\* after the await inside try, is skipped, so the interval stays set
RejectUpload(i) ==
    /\ CanSettleView(i) /\ viewOps[i].op = "upload"
    /\ IF viewOps[i].live
       THEN /\ selectedFiles' = AfterUploadFailure.files
            /\ uploadResponse' = AfterUploadFailure.response
            /\ isUploading' = AfterUploadFailure.uploading
            /\ UNCHANGED uploadProgress
       ELSE UNCHANGED uploadVars
    /\ viewOps' = IF viewOps[i].live /\ viewOps[i].timer
                  THEN [viewOps EXCEPT ![i].op = "interval"]
                  ELSE Remove(viewOps, i)
    /\ lastEvent' = Event("handleUpload",
                          IF viewOps[i].live THEN "failed" ELSE "failed-unmounted",
                          <<>>, <<>>)
    /\ UNCHANGED <<appVars, dashboardVars, analysisVars, chatVars, now>>

(***************************************************************************)
(* The rows of the Dashboard's document list                               *)
(***************************************************************************)
\* variant: every row has the two buttons
RowOffersAlways(doc) == TRUE

\* `doc.status === 'completed' && (...)`: the View Analysis and chat buttons
RowOffers(doc) == doc.status = "completed"

\* the rows tried: a completed document and the one that is processing
RowInputs == {1, 3}

\* a click on one of the two buttons of row k
OpenDocument(k, page) ==
    /\ RenderedView = "dashboard"
    /\ k \in 1..Len(documents)
    /\ RowOffers(documents[k])
    /\ currentPage' = page
    /\ routeParams' = ParamsOrEmpty(Some([id |-> JsStr(documents[k].id)]))
    /\ lastEvent' = Event("openDocument", documents[k].status, <<>>, <<>>)
    /\ UNCHANGED <<storage, user, authCurrentUser, isLoading, mounted, pending,
                   bootKind>>
    /\ Observe
    /\ ViewsReact

(***************************************************************************)
(* The views under a restored session                                      *)
(***************************************************************************)
InitViews == Init /\ bootKind = "session"

NextViews ==
    \/ Restore /\ ViewsReact
    \/ \E page \in ViewPage, params \in ViewNavParams :
          Navigate(page, params) /\ ViewsReact
    \/ \E page \in {"analysis", "chat"} : OpenUploaded(page)
    \/ \E k \in RowInputs, page \in {"analysis", "chat"} :
          OpenDocument(k, page)
    \/ \E i \in 1..MaxViewOps : SettleHistory(i)
    \/ RefreshHistory
    \/ \E i \in 1..MaxViewOps : SettleAnalysis(i)
    \/ \E files \in FileSelections : handleFileSelect(files)
    \/ \E k \in 1..MaxFiles : removeFile(k)
    \/ handleUpload
    \/ \E i \in 1..MaxViewOps : ProgressTick(i)
    \/ \E i \in 1..MaxViewOps : SettleUpload(i)
    \/ resetUpload
    \/ \E i \in 1..MaxViewOps : SettleDocInfo(i)
    \/ \E text \in ChatInputs : handleSendMessage(text)
    \/ \E i \in 1..MaxViewOps : SettleSend(i)

SpecViews == InitViews /\ [][NextViews]_vars

\* the chat view with a transport that can reject a send
NextChatFaulty ==
    \/ Restore /\ ViewsReact
    \/ \E page \in ViewPage, params \in ViewNavParams :
          Navigate(page, params) /\ ViewsReact
    \/ \E i \in 1..MaxViewOps : SettleHistory(i)
    \/ \E k \in RowInputs, page \in {"analysis", "chat"} :
          OpenDocument(k, page)
    \/ \E i \in 1..MaxViewOps : SettleDocInfo(i)
    \/ \E text \in ChatInputs : handleSendMessage(text)
    \/ \E i \in 1..MaxViewOps : SettleSend(i)
    \/ \E i \in 1..MaxViewOps : RejectSend(i)

SpecChatFaulty == InitViews /\ [][NextChatFaulty]_vars

\* the upload view with a transport that can reject an upload
NextUploadFaulty ==
    \/ Restore /\ ViewsReact
    \/ \E page \in ViewPage, params \in ViewNavParams :
          Navigate(page, params) /\ ViewsReact
    \/ \E files \in FileSelections : handleFileSelect(files)
    \/ \E k \in 1..MaxFiles : removeFile(k)
    \/ handleUpload
    \/ \E i \in 1..MaxViewOps : ProgressTick(i)
    \/ \E i \in 1..MaxViewOps : SettleUpload(i)
    \/ \E i \in 1..MaxViewOps : RejectUpload(i)
    \/ resetUpload
    \/ \E page \in {"analysis", "chat"} : OpenUploaded(page)

\* every timer fires in the end and the transport answers every call:
\* a pending upload is resolved or rejected
SpecUploadFaulty ==
    /\ InitViews /\ [][NextUploadFaulty]_vars
    /\ WF_vars(\E i \in 1..MaxViewOps : SettleUpload(i) \/ RejectUpload(i))

(***************************************************************************)
(* The navigations the views offer: every onNavigate call of the sources   *)
(***************************************************************************)
\* the hrefs of the Sidebar's entries; the views' own buttons without params
\* lead to 'dashboard' and 'upload', which are among them
SidebarPages == {"dashboard", "upload", "chat", "profile"}

\* onNavigate(item.href): no params
SidebarNavigate(page) ==
    /\ page \in SidebarPages
    /\ Navigate(page, None)
    /\ ViewsReact

\* ChatPage's "View Analysis" button, rendered once the chat has loaded:
\* onNavigate('analysis', { id: documentId })
ViewAnalysisFromChat ==
    /\ RenderedView = "chat"
    /\ Truthy(DocumentIdProp) /\ ~chatLoading
    /\ currentPage' = "analysis"
    /\ routeParams' = ParamsOrEmpty(Some([id |-> DocumentIdProp]))
    /\ lastEvent' = Event("viewAnalysis", "done", <<>>, <<>>)
    /\ UNCHANGED <<storage, user, authCurrentUser, isLoading, mounted, pending,
                   bootKind>>
    /\ Observe
    /\ ViewsReact

\* AnalysisPage's "Chat" button, rendered with the loaded analysis:
\* onNavigate('chat', { id: analysis.id })
ChatFromAnalysis ==
    /\ RenderedView = "analysis"
    /\ Truthy(DocumentIdProp) /\ ~analysisLoading /\ analysis # None
    /\ currentPage' = "chat"
    /\ routeParams' = ParamsOrEmpty(Some([id |-> JsStr(analysis[1].id)]))
    /\ lastEvent' = Event("openChat", "done", <<>>, <<>>)
    /\ UNCHANGED <<storage, user, authCurrentUser, isLoading, mounted, pending,
                   bootKind>>
    /\ Observe
    /\ ViewsReact

\* the views driven through what they render only
NextOffered ==
    \/ Restore /\ ViewsReact
    \/ \E page \in SidebarPages : SidebarNavigate(page)
    \/ \E k \in RowInputs, page \in {"analysis", "chat"} :
          OpenDocument(k, page)
    \/ \E page \in {"analysis", "chat"} : OpenUploaded(page)
    \/ ViewAnalysisFromChat
    \/ ChatFromAnalysis
    \/ \E i \in 1..MaxViewOps : SettleHistory(i)
    \/ RefreshHistory
    \/ \E i \in 1..MaxViewOps : SettleAnalysis(i)
    \/ \E files \in FileSelections : handleFileSelect(files)
    \/ \E k \in 1..MaxFiles : removeFile(k)
    \/ handleUpload
    \/ \E i \in 1..MaxViewOps : ProgressTick(i)
    \/ \E i \in 1..MaxViewOps : SettleUpload(i)
    \/ resetUpload
    \/ \E i \in 1..MaxViewOps : SettleDocInfo(i)
    \/ \E text \in ChatInputs : handleSendMessage(text)
    \/ \E i \in 1..MaxViewOps : SettleSend(i)

SpecOffered == InitViews /\ [][NextOffered]_vars

(***************************************************************************)
(* Properties                                                              *)
(***************************************************************************)
StartupDone == mounted /\ ~isLoading

\* the persisted blob and the in-memory session say the same
SessionAgrees ==
    /\ (storage = None) <=> (user = None)
    /\ user # None => /\ ~ParseThrows(storage[1])
                      /\ JSONParse(storage[1]) = user[1]

AcceptedPair(email, password) == email = TestEmail /\ password = TestPassword

\* C1: once startup has finished, whenever no session is active the rendered
\* view is the auth view, whatever page navigate has recorded in currentPage.
C1_NoSessionRendersAuth ==
    (StartupDone /\ user = None) => RenderedView = "auth"

C1_Witness ==
    /\ StartupDone /\ user = None
    /\ lastEvent.op = "navigate"
    /\ currentPage = "chat"
    /\ routeParams.id # JsUndefined

\* C2: when storage holds a well-formed session at startup, only the loading
\* placeholder is rendered until the session is restored, and the first view
\* rendered after it is the dashboard, never the auth view.
C2_RestoreBeforeFirstView ==
    bootKind = "session" =>
        /\ isLoading => (RenderedView = "loading" /\ firstView = "none")
        /\ ~isLoading => firstView = "dashboard"
        /\ lastEvent.op = "restore" =>
               (~isLoading /\ user # None /\ RenderedView = "dashboard")

C2_Witness ==
    /\ bootKind = "session"
    /\ lastEvent.op = "restore"
    /\ user # None
    /\ firstView = "dashboard"

\* C3: restore never throws and always concludes: with the blob absent or
\* malformed, startup ends (isLoading false) with no session and the auth view.
C3_RestoreConcludesWithoutSession ==
    (lastEvent.op = "restore" /\ bootKind # "session") =>
        /\ lastEvent.outcome = "done"
        /\ StartupDone
        /\ user = None
        /\ RenderedView = "auth"

\* C4: after login, signup, logout or updateProfile has returned, under any
\* interleaving, the blob is absent iff the session is null, and otherwise
\* the blob deserializes to a value equal to the in-memory session.
C4_SessionMatchesBlob ==
    lastEvent.op \in {"login", "signup", "logout", "updateProfile"} =>
        SessionAgrees

C4_Witness ==
    /\ lastEvent.op = "updateProfile"
    /\ user # None
    /\ user[1].displayName = JsStr(<<"Ann">>)
    /\ Len(pending) = MaxInFlight

\* C5: after a login that succeeded the rendered view is the dashboard,
\* whatever route was recorded before, and the persisted blob deserializes
\* to the in-memory session.
C5_LoginLandsOnDashboard ==
    (lastEvent.op = "login" /\ lastEvent.outcome = "resolved") =>
        /\ RenderedView = "dashboard"
        /\ user # None
        /\ storage # None
        /\ ~ParseThrows(storage[1])
        /\ JSONParse(storage[1]) = user[1]

C5_Witness ==
    /\ lastEvent.op = "login" /\ lastEvent.outcome = "resolved"
    /\ routeParams.id # JsUndefined
    /\ bootKind = "absent"

\* C6: when logout has completed the session is null and the blob is absent,
\* so the restore effect of a restarted process finds no session.
C6_LogoutClearsSessionAndBlob ==
    lastEvent.op = "logout" =>
        /\ user = None
        /\ storage = None
        /\ ~RestoreEffect(storage).threw
        /\ RestoreEffect(storage).user = None

C6_Witness ==
    /\ lastEvent.op = "logout"
    /\ bootKind = "session"
    /\ pending # <<>>

\* C11: a logout that finds no session (a second logout, after the first one
\* completed or while it was in progress) resolves and ends where a single
\* logout ends: no session, no blob, the auth view.
C11_SecondLogoutSameState ==
    (lastEvent.op = "logout" /\ ~lastEvent.hadSession) =>
        /\ lastEvent.outcome = "resolved"
        /\ user = AfterSignOut.user
        /\ authCurrentUser = AfterSignOut.auth
        /\ storage = AfterSignOut.storage
        /\ RenderedView = "auth"

C11_Witness ==
    /\ lastEvent.op = "logout"
    /\ ~lastEvent.hadSession
    /\ bootKind = "session"
    /\ RenderedView = "auth"

\* C7: when logout has completed the route is the auth view with empty params.
C7_LogoutClearsParams ==
    lastEvent.op = "logout" =>
        /\ currentPage = "auth"
        /\ routeParams = [id |-> JsUndefined]

\* C8: updateProfile invoked with no session active is reported to its caller
\* as a failure and changes neither the session nor the blob.
C8_UpdateWithoutSessionFails ==
    [][(lastEvent'.op = "updateProfile" /\ user = None) =>
          /\ lastEvent'.outcome = "rejected"
          /\ UNCHANGED <<user, storage>>]_vars

\* C9: a login with any pair but the accepted test account is rejected to the
\* caller and changes neither the session, the blob nor the route.
C9_BadLoginChangesNothing ==
    [][(/\ lastEvent'.op = "login"
        /\ ~AcceptedPair(lastEvent'.email, lastEvent'.password)) =>
          /\ lastEvent'.outcome = "rejected"
          /\ UNCHANGED <<user, authCurrentUser, storage, currentPage,
                         routeParams>>]_vars

C9_Witness ==
    /\ lastEvent.op = "login" /\ lastEvent.outcome = "rejected"
    /\ lastEvent.email = TestEmail
    /\ user # None
    /\ currentPage = "profile"

\* C10: signup succeeds for every pair, also for an email that already has an
\* account; afterwards a session with that email is active and persisted and
\* the rendered view is the dashboard.
C10_SignupAlwaysSucceeds ==
    lastEvent.op = "signup" =>
        /\ lastEvent.outcome = "resolved"
        /\ user # None
        /\ user[1].email = JsStr(lastEvent.email)
        /\ storage # None
        /\ ~ParseThrows(storage[1])
        /\ JSONParse(storage[1]) = user[1]
        /\ RenderedView = "dashboard"

C10_Witness ==
    /\ lastEvent.op = "signup"
    /\ lastEvent.email = TestEmail
    /\ user # None
    /\ user[1].email = JsStr(TestEmail)
    /\ user[1].displayName = JsNull

(***************************************************************************)
(* Properties of the views                                                 *)
(***************************************************************************)
\* the documents the application holds: the history list and the upload result
KnownDocIds ==
    {documents[k].id : k \in 1..Len(documents)}
        \cup {uploadResponse[k].documentId : k \in 1..Len(uploadResponse)}

\* a history entry with status completed, or the id an upload produced
CompletedDoc(d) ==
    \/ \E k \in 1..Len(DocumentHistory) :
          DocumentHistory[k].id = d /\ DocumentHistory[k].status = "completed"
    \/ d[1] = "doc_"

\* the sends of document d that have not resolved yet
OutstandingSends(d) ==
    {i \in 1..Len(viewOps) : viewOps[i].op = "send" /\ viewOps[i].doc = d}

\* the chat view shows the seeded transcript of document d
ChatShows(d) ==
    /\ RenderedView = "chat"
    /\ DocumentIdProp = JsStr(d)
    /\ ~chatLoading
    /\ documentInfo = Some(GetDocumentInfo(d))

\* C12: every known document carries analysis data (a summary) exactly when
\* its status is completed.
C12_AnalysisIffCompleted ==
    \A k \in 1..Len(documents) :
        (documents[k].summary.tag = "string") <=> (documents[k].status = "completed")

\* C13: the analysis view obtains no analysis for a document that is unknown
\* or not completed.
C13_NoAnalysisUnlessCompleted ==
    analysis # None => CompletedDoc(analysis[1].id)

\* C14: the analysis the analysis view obtains for an uploaded document is the
\* one the upload attached: same summary, same risk level.
C14_AnalysisIsTheUploadedOne ==
    (analysis # None /\ analysis[1].id[1] = "doc_") =>
        /\ analysis[1].summary = MockUploadAPI(<<>>, 0).analysis.summary
        /\ analysis[1].riskLevel = MockUploadAPI(<<>>, 0).analysis.riskLevel

\* C15: a document an upload produced stays among the known documents in
\* every later state.
C15_UploadedStaysKnown ==
    [][uploadResponse # None => uploadResponse[1].documentId \in KnownDocIds']_vars

\* C16: a transcript that received a user message still holds one whenever
\* the chat view shows that document's transcript again.
C16_TranscriptKeepsMessages ==
    \A d \in everSent :
        ChatShows(d) => \E k \in 1..Len(messages) : messages[k].role = "user"

\* C17: a navigate('chat', {id: d}) while the chat view already shows d
\* leaves the transcript as it is and starts no second initialisation.
C17_SecondNavigateKeepsTranscript ==
    [][(/\ lastEvent'.op = "navigate"
        /\ RenderedView = "chat" /\ RenderedView' = "chat"
        /\ Truthy(DocumentIdProp)
        /\ routeParams' = routeParams)
       => (/\ messages' = messages
           /\ documentInfo' = documentInfo
           /\ chatLoading' = chatLoading
           /\ viewOps' = viewOps)]_vars

C17_Witness ==
    /\ lastEvent.op = "navigate"
    /\ RenderedView = "chat"
    /\ Truthy(DocumentIdProp)
    /\ ~chatLoading
    /\ Len(messages) > 1

\* C18: after N appends the transcript is the welcome message followed by
\* the N appended messages, in the order of the calls: its length is N + 1.
C18_TranscriptLength ==
    messages # <<>> =>
        /\ Len(messages) = appendCount + 1
        /\ messages[1].id.kind = "welcome"
        /\ \A j, k \in 2..Len(messages) :
              j < k => /\ messages[j].id.kind # "welcome"
                       /\ messages[j].id.at <= messages[k].id.at

C18_Witness ==
    /\ appendCount = 4
    /\ Len(messages) = 5
    /\ lastEvent.op = "sendMessage"

\* C19: in a transcript a user message stands before the reply to it, and
\* before the reply to any message sent after it.
C19_OrderIsSendOrder ==
    \A j, k \in 1..Len(messages) :
        (/\ messages[j].role = "user"
         /\ messages[k].id.kind = "assistant"
         /\ messages[j].id.at <= messages[k].id.at) => j < k

C19_Witness ==
    /\ Len(messages) >= 5
    /\ messages[2].role = "user" /\ messages[3].id.kind = "assistant"
    /\ messages[4].role = "user" /\ messages[5].id.kind = "assistant"
    /\ messages[3].id.at < messages[4].id.at

\* C20: at most one send of a document is outstanding.
C20_OneSendOutstanding ==
    \A i \in 1..Len(viewOps) :
        Cardinality(OutstandingSends(viewOps[i].doc)) <= 1

\* C21: when the reply to a send fails, the transcript keeps its length and
\* every message, except that the originating user message gets status
\* error; no assistant message is appended.
C21_FailedSendMarksError ==
    [][\A i \in 1..Len(viewOps) :
          (/\ viewOps[i].op = "send" /\ viewOps[i].live
           /\ viewOps' = Remove(viewOps, i)
           /\ lastEvent'.outcome = "failed")
          => /\ Len(messages') = Len(messages)
             /\ \A k \in 1..Len(messages) :
                   messages'[k] =
                     IF messages[k].id = MessageId("user", viewOps[i].at)
                     THEN [messages[k] EXCEPT !.status = "error"]
                     ELSE messages[k]]_vars

C21_Witness ==
    /\ lastEvent.op = "sendMessage" /\ lastEvent.outcome = "failed"
    /\ \E k \in 1..Len(messages) :
          messages[k].role = "user" /\ messages[k].status = "error"
    /\ messages[Len(messages)].role = "user"

\* C22: no upload and no chat reply resolves without its result being
\* recorded, whether or not the view that started it is still mounted.
C22_InFlightResultRecorded ==
    ~(/\ lastEvent.op \in {"handleUpload", "sendMessage"}
      /\ lastEvent.outcome = "dropped")

\* C23: a send that resolves records one outcome: a reply is appended.
C23_SendRecordsOneOutcome ==
    [][\A i \in 1..Len(viewOps) :
          (viewOps[i].op = "send" /\ viewOps' = Remove(viewOps, i))
          => \/ Len(messages') = Len(messages) + 1
             \/ \E k \in 1..Len(messages) :
                   /\ k <= Len(messages')
                   /\ messages'[k].status = "error"
                   /\ messages[k].status # "error"]_vars

\* C24: once the upload has resolved or been rejected no progress interval
\* of it is still set.
C24_TimerCancelledOnResolve ==
    \A i \in 1..Len(viewOps) : viewOps[i].op # "interval"

\* C25: the progress interval of an upload whose view has been torn down is
\* not set any more.
C25_TimerCancelledOnTeardown ==
    \A i \in 1..Len(viewOps) : viewOps[i].timer => viewOps[i].live

\* C26: every started upload eventually leaves the uploading state.
C26_UploadEventuallyEnds == isUploading ~> ~isUploading

C26_Witness ==
    /\ lastEvent.op = "handleUpload"
    /\ lastEvent.outcome \in {"done", "failed"}
    /\ ~isUploading
    /\ RenderedView = "upload"

\* C27: no two outstanding uploads are uploads of the same document.
C27_OneUploadOutstanding ==
    \A i, j \in 1..Len(viewOps) :
        (/\ viewOps[i].op = "upload" /\ viewOps[j].op = "upload"
         /\ viewOps[i].doc = viewOps[j].doc) => i = j

\* C28: the list shows every document of the history, and a row opens the
\* analysis or chat view only for a document whose status is completed.
C28_RowsNavigateWhenCompleted ==
    /\ documents # <<>> => documents = DocumentHistory
    /\ lastEvent.op = "openDocument" =>
          /\ lastEvent.outcome = "completed"
          /\ \E k \in 1..Len(DocumentHistory) :
                /\ DocumentIdProp = JsStr(DocumentHistory[k].id)
                /\ DocumentHistory[k].status = "completed"

C28_Witness ==
    /\ lastEvent.op = "openDocument"
    /\ RenderedView \in {"analysis", "chat"}
    /\ Truthy(DocumentIdProp)

\* C29: a failed upload leaves no upload response, the selection as it was
\* and isUploading false, and is reported as a failure.
C29_FailedUploadIsRetryable ==
    [][\A i \in 1..Len(viewOps) :
          (/\ viewOps[i].op = "upload" /\ viewOps[i].live
           /\ viewOps' # viewOps
           /\ lastEvent'.op = "handleUpload" /\ lastEvent'.outcome = "failed")
          => /\ uploadResponse' = None
             /\ selectedFiles' = selectedFiles
             /\ ~isUploading']_vars

C29_Witness ==
    /\ lastEvent.op = "handleUpload" /\ lastEvent.outcome = "failed"
    /\ RenderedView = "upload"
    /\ selectedFiles # <<>>
    /\ uploadResponse = None
    /\ ~isUploading

\* C30: the ids of the selected files are pairwise distinct.
C30_FileIdsDistinct ==
    \A j, k \in 1..Len(selectedFiles) :
        selectedFiles[j].id = selectedFiles[k].id => j = k

\* C31: the upload progress is a multiple of 10 between 0 and 100; while the
\* view is uploading it is at most 90 and no step lowers it, and it is 100
\* only when the view holds the response of a successful upload.
C31_ProgressInRange ==
    /\ [](/\ uploadProgress \in
               {k * ProgressStep : k \in 0..(ProgressDone \div ProgressStep)}
          /\ isUploading => uploadProgress <= ProgressCap
          /\ uploadProgress = ProgressDone =>
                uploadResponse # None /\ uploadResponse[1].success)
    /\ [][isUploading /\ isUploading' =>
             uploadProgress' >= uploadProgress]_vars

\* the interval fires once more at the cap, during the upload
C31_Witness ==
    /\ lastEvent.op = "progress"
    /\ isUploading
    /\ uploadProgress = ProgressCap
    /\ \E i \in 1..Len(viewOps) :
          viewOps[i].op = "upload" /\ viewOps[i].live /\ ~viewOps[i].timer

\* the uploads among the calls that are outstanding
UploadsOf(calls) == SelectSeq(calls, LAMBDA c : c.op = "upload")

\* C32: one handleUpload call submits exactly one upload, of the first
\* selected file, whatever the number of selected files is, and the step
\* that resolves it yields one document id.
C32_OneUploadOfFirstFile ==
    [][/\ (lastEvent'.op = "handleUpload" /\ lastEvent'.outcome = "started")
          => /\ selectedFiles # <<>>
             /\ viewOps' = Append(viewOps, viewOps'[Len(viewOps')])
             /\ viewOps'[Len(viewOps')].op = "upload"
             /\ viewOps'[Len(viewOps')].doc = selectedFiles[1].file.name
       /\ (lastEvent'.op = "handleUpload" /\ lastEvent'.outcome = "done")
          => /\ Len(UploadsOf(viewOps')) = Len(UploadsOf(viewOps)) - 1
             /\ uploadResponse' # None
             /\ uploadResponse'[1].documentId = <<"doc_", ToString(now')>>
             /\ now' = now + 1
       /\ lastEvent'.op # "handleUpload"
          => Len(UploadsOf(viewOps')) <= Len(UploadsOf(viewOps))]_vars

\* two different files are selected and the upload has been started
C32_Witness ==
    /\ lastEvent.op = "handleUpload" /\ lastEvent.outcome = "started"
    /\ Len(selectedFiles) >= 2
    /\ selectedFiles[1].file # selectedFiles[2].file
    /\ Len(UploadsOf(viewOps)) = 1

\* C33: a send whose input is empty or only whitespace, or on a chat view
\* without a document id, changes nothing: no message is appended, no reply
\* is requested and isSending stays false.
C33_EmptySendIsNoOp ==
    [][\A text \in ChatInputs :
          (/\ handleSendMessage(text)
           /\ Trim(text) = <<>> \/ ~Truthy(DocumentIdProp))
          => /\ UNCHANGED <<messages, viewOps, isSending, appVars, now>>
             /\ SendEnabled => ~isSending']_vars

\* Enter is pressed in the input of a loaded chat with only a blank in it
C33_Witness ==
    /\ lastEvent.op = "sendMessage" /\ lastEvent.outcome = "ignored"
    /\ RenderedView = "chat"
    /\ Truthy(DocumentIdProp)
    /\ Len(messages) >= 1
    /\ ~isSending

\* C34: once startup is over, a state with an active session never has
\* 'auth' as its current page, so renderPage never returns null.
C34_SessionNeverOnAuthPage ==
    (StartupDone /\ user # None) =>
        /\ currentPage # "auth"
        /\ RenderedView # "nothing"

\* a login or signup has established the session while another call of the
\* controller is still in flight
C34_Witness ==
    /\ StartupDone
    /\ user # None
    /\ lastEvent.op \in {"login", "signup"}
    /\ lastEvent.outcome = "resolved"
    /\ \E i \in 1..Len(pending) : pending[i].op = "logout"

\* C35: a login or signup that was in flight when a logout completed does
\* not bring the session back.  The step right after the completion of a
\* logout that ended a session, when it settles a login or signup, settles
\* one that was started before: it leaves no user and no persisted blob.
C35_LogoutOutlivesEarlierLogin ==
    [][(/\ lastEvent.op = "logout" /\ lastEvent.outcome = "resolved"
        /\ lastEvent.hadSession
        /\ lastEvent'.op \in {"login", "signup"})
       => (user' = None /\ storage' = None)]_vars

\* C36: driven through the navigations the views offer, the analysis and
\* the chat view are shown only with the id of a document listed as
\* completed or with the id a successful upload returned.
C36_OfferedIdsAreCompleted ==
    (RenderedView \in {"analysis", "chat"} /\ Truthy(DocumentIdProp)) =>
        CompletedDoc(DocumentIdProp.val)

\* the id of an upload has gone from the result to the chat and from there
\* to the analysis view
C36_Witness ==
    /\ lastEvent.op = "viewAnalysis"
    /\ RenderedView = "analysis"
    /\ Truthy(DocumentIdProp)
    /\ DocumentIdProp.val[1] = "doc_"

\* C37: the documentId the analysis or chat view is given is the params of
\* the most recent navigate call.  Every navigate call stores exactly its
\* params, or {} when it has none; the analysis or chat view comes on screen
\* by a navigate call only, and while it stays there no other step, logout
\* and login included, changes the stored params.
C37_ParamsAreLastNavigate ==
    [][/\ \A page \in ViewPage, params \in NavParams :
             Navigate(page, params) =>
                routeParams' = IF params = None THEN [id |-> JsUndefined]
                               ELSE params[1]
       /\ RenderedView' \in {"analysis", "chat"} =>
             \/ lastEvent'.op = "navigate"
             \/ /\ RenderedView' = RenderedView
                /\ routeParams' = routeParams]_vars

\* a login has resolved while the params of an earlier navigate are still
\* stored, and the view on screen is not one that reads them
C37_Witness ==
    /\ lastEvent.op \in {"login", "signup"}
    /\ lastEvent.outcome = "resolved"
    /\ Truthy(routeParams.id)
    /\ RenderedView = "dashboard"
    /\ bootKind = "session"

====
